---- MODULE Spec2Model ----
(***************************************************************************)
(* A model of the link scraper of src/main.go: the LinkScraper struct, its *)
(* recursive traversal (ScrapeLinksRecursive / scrapePage), the link       *)
(* registry (addLink), the error log (addError) and the report             *)
(* (GetResults).                                                           *)
(*                                                                         *)
(* A URL string is modelled by the record of its components                *)
(*   [scheme, host, path, query, frag, pad]                                *)
(* host is the sequence of its dot-separated labels (<<>> = no host),      *)
(* query the sequence of its key/value pairs, pad says whether the string  *)
(* carries surrounding whitespace.  Two records are equal exactly when the *)
(* strings they stand for are equal.                                       *)
(***************************************************************************)
EXTENDS Integers, Sequences, FiniteSets, TLC

\* ------------------------------------------------------------------ bounds

\* largest value of maxDepth a run is started with
MaxDepthBound == 2

\* number of goroutines that call the scraper's methods concurrently
NThreads == 3

\* ------------------------------------------------------------ URL strings

URLString(scheme, host, path, query, frag) ==
  [scheme |-> scheme, host |-> host, path |-> path, query |-> query,
   frag |-> frag, pad |-> FALSE]

\* the string "" (url.Parse("") succeeds and yields the empty URL)
EmptyString == URLString("", <<>>, "", <<>>, "")

\* strings.ToLower on one host label
ToLowerLabel(l) ==
  CASE l = "WWW" -> "www"
    [] l = "EX" -> "ex"
    [] l = "COM" -> "com"
    [] OTHER -> l

\* strings.ToLower on a host
ToLower(host) == [i \in 1..Len(host) |-> ToLowerLabel(host[i])]

\* mutant of TrimPrefixWww: the prefix is left in place
TrimPrefixNothing(host) == host

\* strings.TrimPrefix(host, "www."): the host "www" alone has no such prefix
TrimPrefixWww(host) ==
  IF Len(host) > 1 /\ host[1] = "www" THEN Tail(host) ELSE host

\* url.Parse fails on the strings modelled by the scheme "%invalid"
ParseFails(s) == s.scheme = "%invalid"

\* strings.ToLower on a scheme
ToLowerScheme(scheme) ==
  CASE scheme = "JAVASCRIPT" -> "javascript"
    [] scheme = "HTTPS" -> "https"
    [] OTHER -> scheme

\* url.Parse of a string it accepts: the scheme is lower-cased, the rest is
\* kept as written
Parse(s) == [s EXCEPT !.scheme = ToLowerScheme(@)]

\* url.QueryUnescape fails on the key or value "%zz"
BadEscape(s) == s = "%zz"

\* url.URL.Query(): url.ParseQuery, which leaves out every pair whose key or
\* value does not unescape, and whose error Query() discards
Query(rawQuery) ==
  SelectSeq(rawQuery, LAMBDA p : ~BadEscape(p.k) /\ ~BadEscape(p.v))

\* the tracking parameters normalizeURL deletes
trackingParams ==
  {"utm_source", "utm_medium", "utm_campaign", "utm_term", "utm_content",
   "fbclid", "gclid"}

\* url.Values.Del for every tracking parameter
DelTracking(query) == SelectSeq(query, LAMBDA p : p.k \notin trackingParams)

\* the order url.Values.Encode sorts the keys in (bytewise), on the keys used
KeyRank(k) ==
  CASE k = "fbclid" -> 1
    [] k = "gclid" -> 2
    [] k = "id" -> 3
    [] k = "page" -> 4
    [] k = "utm_campaign" -> 5
    [] k = "utm_source" -> 6
    [] OTHER -> 7

RECURSIVE InsertByKey(_, _)
InsertByKey(sorted, p) ==
  IF sorted = <<>> THEN <<p>>
  ELSE IF KeyRank(p.k) < KeyRank(Head(sorted).k)
       THEN <<p>> \o sorted
       ELSE <<Head(sorted)>> \o InsertByKey(Tail(sorted), p)

\* url.Values.Encode: the pairs sorted by key, the values of one key in order
RECURSIVE Encode(_)
Encode(query) ==
  IF query = <<>> THEN <<>>
  ELSE InsertByKey(Encode(SubSeq(query, 1, Len(query) - 1)), query[Len(query)])

\* the schemes normalizeURL rejects by prefix
RejectedSchemes == {"javascript", "mailto", "tel", "ftp", "file"}

\* strings.HasPrefix(href, "#")
IsBareFragment(href) ==
  /\ href.scheme = ""
  /\ href.host = <<>>
  /\ href.path = ""
  /\ href.query = <<>>
  /\ href.frag # ""

\* url.URL.ResolveReference, on absolute-path references
ResolveReference(base, ref) ==
  IF ref.scheme # "" THEN ref
  ELSE IF ref.host # <<>> THEN [ref EXCEPT !.scheme = base.scheme]
  ELSE IF ref.path = ""
       THEN [base EXCEPT !.query = IF ref.query # <<>> THEN ref.query ELSE base.query,
                         !.frag = ref.frag]
       ELSE [base EXCEPT !.path = ref.path, !.query = ref.query, !.frag = ref.frag]

\* normalizeURL(href, baseURL); EmptyString is the "" it returns for a
\* rejected reference
normalizeURL(href, baseURL) ==
  LET trimmed == [href EXCEPT !.pad = FALSE] IN
  IF \/ trimmed = EmptyString
     \/ IsBareFragment(trimmed)
     \/ trimmed.scheme \in RejectedSchemes
  THEN EmptyString
  ELSE IF ParseFails(baseURL) THEN EmptyString
  ELSE IF ParseFails(trimmed) THEN EmptyString
  ELSE LET resolved == ResolveReference(Parse(baseURL), Parse(trimmed)) IN
       [resolved EXCEPT !.frag = "", !.query = Encode(DelTracking(Query(resolved.query)))]

\* isInternalLink(link) of a scraper whose baseURL is base
isInternalLink(base, link) ==
  IF ParseFails(link) THEN FALSE
  ELSE IF link.host = <<>> THEN TRUE
  ELSE TrimPrefixWww(ToLower(base.host)) = TrimPrefixWww(ToLower(link.host))

\* ------------------------------------------------------ the fetched pages

\* the seed the run is started with (os.Args[1]): https://ex.com/
SeedURL == URLString("https", <<"ex", "com">>, "/", <<>>, "")

\* the references found on the pages of the modelled site
HrefA == URLString("", <<>>, "/a", <<>>, "")
HrefB == URLString("https", <<"ex", "com">>, "/b", <<>>, "")
HrefC ==
  URLString("https", <<"WWW", "ex", "com">>, "/c", <<[k |-> "utm_source", v |-> "x"]>>, "top")
HrefExt == URLString("https", <<"other", "org">>, "/", <<>>, "")
HrefImg == URLString("", <<>>, "/img.png", <<>>, "")
HrefJs == URLString("javascript", <<>>, "void(0)", <<>>, "")
HrefSeed == URLString("", <<>>, "/", <<>>, "")
HrefCss == URLString("", <<>>, "/style.css", <<>>, "")
HrefLogo == URLString("", <<>>, "/logo.png", <<>>, "")

\* main: outputDir := "./scraping_results"
DefaultOutputDir == "./scraping_results"

\* an element of a parsed document: its tag, the tokens of its rel
\* attribute and its href (src for img)
Element(tag, rel, href) == [tag |-> tag, rel |-> rel, href |-> href]

\* the documents the pages of the modelled site hold, in document order
SiteBodies ==
  { << Element("a", <<>>, HrefA), Element("a", <<>>, HrefB) >>,
    << Element("a", <<>>, HrefB), Element("a", <<>>, HrefExt) >>,
    << Element("a", <<>>, HrefC), Element("link", <<"canonical">>, HrefSeed) >>,
    << Element("a", <<>>, HrefImg), Element("a", <<>>, HrefA) >>,
    << Element("link", <<"stylesheet">>, HrefCss), Element("img", <<>>, HrefLogo),
       Element("a", <<>>, HrefJs) >> }

\* what ls.client.Do returns, apart from the document
Envelope(reqErr, encoding, gzipOK, status, ctype, parseOK) ==
  [reqErr |-> reqErr, encoding |-> encoding, gzipOK |-> gzipOK,
   status |-> status, ctype |-> ctype, parseOK |-> parseOK]

Envelopes ==
  { Envelope(FALSE, "gzip", TRUE, 299, "Text/HTML; charset=utf-8", TRUE),
    Envelope(TRUE, "", TRUE, 200, "text/html", TRUE),
    Envelope(FALSE, "gzip", FALSE, 200, "text/html", TRUE),
    Envelope(FALSE, "", TRUE, 404, "text/html", TRUE),
    Envelope(FALSE, "", TRUE, 200, "image/png", TRUE),
    Envelope(FALSE, "", TRUE, 200, "text/html", FALSE) }

\* the plain 200 text/html response
PlainOK == Envelope(FALSE, "", TRUE, 200, "text/html", TRUE)

\* the document the other responses carry
SampleBody == << Element("a", <<>>, HrefA), Element("a", <<>>, HrefExt) >>

\* what a fetch can return: every document in a plain response, and every
\* other kind of response with the sample document
Responses ==
  { [env |-> PlainOK, body |-> b] : b \in SiteBodies }
    \cup { [env |-> e, body |-> SampleBody] : e \in Envelopes }

\* strings.Contains(strings.ToLower(contentType), "text/html")
IsHTML(ctype) == ctype \in {"text/html", "Text/HTML; charset=utf-8"}

\* mutant of FetchError: the status code is not checked
FetchErrorIgnoresStatus(env) ==
  IF env.reqErr THEN "request"
  ELSE IF env.encoding = "gzip" /\ ~env.gzipOK THEN "gzip"
  ELSE IF ~(env.ctype \in {"text/html", "Text/HTML; charset=utf-8"}) THEN "content-type"
  ELSE IF ~env.parseOK THEN "parse"
  ELSE ""

\* the error scrapePage returns before it reads the document ("" = none),
\* in the order of its checks
FetchError(env) ==
  IF env.reqErr THEN "request"
  ELSE IF env.encoding = "gzip" /\ ~env.gzipOK THEN "gzip"
  ELSE IF env.status < 200 \/ env.status >= 300 THEN "status"
  ELSE IF ~IsHTML(env.ctype) THEN "content-type"
  ELSE IF ~env.parseOK THEN "parse"
  ELSE ""

\* --------------------------------------------------------- the registry

\* the duplicate scan of addLink
Registered(ls, link) == \E i \in 1..Len(ls) : ls[i] = link

\* mutant of addLink: an internal link is appended to externalLinks as well
addLinkBoth(base, reg, link) ==
  IF \E i \in 1..Len(reg.links) : reg.links[i] = link THEN reg
  ELSE IF isInternalLink(base, link)
       THEN [reg EXCEPT !.links = Append(@, link),
                        !.internalLinks = Append(@, link),
                        !.externalLinks = Append(@, link)]
       ELSE [reg EXCEPT !.links = Append(@, link),
                        !.externalLinks = Append(@, link)]

\* mutant of addLink: the link is put at the head of the lists
addLinkPrepend(base, reg, link) ==
  IF \E i \in 1..Len(reg.links) : reg.links[i] = link THEN reg
  ELSE IF isInternalLink(base, link)
       THEN [reg EXCEPT !.links = <<link>> \o @,
                        !.internalLinks = <<link>> \o @]
       ELSE [reg EXCEPT !.links = <<link>> \o @,
                        !.externalLinks = <<link>> \o @]

\* addLink on the three lists reg = [links, internalLinks, externalLinks]
addLink(base, reg, link) ==
  IF Registered(reg.links, link) THEN reg
  ELSE IF isInternalLink(base, link)
       THEN [reg EXCEPT !.links = Append(@, link),
                        !.internalLinks = Append(@, link)]
       ELSE [reg EXCEPT !.links = Append(@, link),
                        !.externalLinks = Append(@, link)]

\* doc.Find("a[href]")
FindAnchors(body) == SelectSeq(body, LAMBDA e : e.tag = "a")

\* strings.Contains(rel, "canonical") || strings.Contains(rel, "alternate")
RelKept(rel) == \E i \in 1..Len(rel) : rel[i] \in {"canonical", "alternate"}

\* mutant of FindLinkElements: the rel filter is left out
FindLinkElementsAnyRel(body) == SelectSeq(body, LAMBDA e : e.tag = "link")

\* doc.Find("link[href]") and the rel filter of its callback
FindLinkElements(body) == SelectSeq(body, LAMBDA e : e.tag = "link" /\ RelKept(e.rel))

\* mutant of ScrapeElement: every kept reference becomes a candidate
ScrapeElementNoFilter(base, targetURL, acc, e) ==
  LET cleanURL == normalizeURL(e.href, targetURL) IN
  IF cleanURL = EmptyString THEN acc
  ELSE [reg |-> addLink(base, acc.reg, cleanURL),
        newInternalLinks |-> Append(acc.newInternalLinks, cleanURL)]

\* mutant of ScrapeElement: the result of normalizeURL is registered without
\* the test for ""
ScrapeElementNoEmptyCheck(base, targetURL, acc, e) ==
  LET cleanURL == normalizeURL(e.href, targetURL) IN
  [reg |-> addLink(base, acc.reg, cleanURL),
   newInternalLinks |->
     IF isInternalLink(base, cleanURL)
     THEN Append(acc.newInternalLinks, cleanURL)
     ELSE acc.newInternalLinks]

\* one callback of scrapePage on acc = [reg, newInternalLinks]
ScrapeElement(base, targetURL, acc, e) ==
  LET cleanURL == normalizeURL(e.href, targetURL) IN
  IF cleanURL = EmptyString THEN acc
  ELSE [reg |-> addLink(base, acc.reg, cleanURL),
        newInternalLinks |->
          IF isInternalLink(base, cleanURL)
          THEN Append(acc.newInternalLinks, cleanURL)
          ELSE acc.newInternalLinks]

RECURSIVE Each(_, _, _, _)
Each(base, targetURL, acc, elems) ==
  IF elems = <<>> THEN acc
  ELSE Each(base, targetURL, ScrapeElement(base, targetURL, acc, Head(elems)), Tail(elems))

\* the elements scrapePage visits: the anchors twice, then the link elements
ScannedElements(body) == FindAnchors(body) \o FindAnchors(body) \o FindLinkElements(body)

\* mutant of scrapePage: the links are extracted and registered before the
\* response is checked
scrapePageRegistersFirst(base, reg, targetURL, resp) ==
  LET acc == Each(base, targetURL, [reg |-> reg, newInternalLinks |-> <<>>],
                  ScannedElements(resp.body))
  IN IF resp.env.reqErr THEN [err |-> "request", reg |-> reg, newInternalLinks |-> <<>>]
     ELSE IF FetchError(resp.env) # ""
          THEN [err |-> FetchError(resp.env), reg |-> acc.reg, newInternalLinks |-> <<>>]
          ELSE [err |-> "", reg |-> acc.reg, newInternalLinks |-> acc.newInternalLinks]

\* scrapePage(targetURL) on response resp: [err, reg, newInternalLinks];
\* http.NewRequest fails on a URL that does not parse
scrapePage(base, reg, targetURL, resp) ==
  IF ParseFails(targetURL)
  THEN [err |-> "new-request", reg |-> reg, newInternalLinks |-> <<>>]
  ELSE IF FetchError(resp.env) # ""
  THEN [err |-> FetchError(resp.env), reg |-> reg, newInternalLinks |-> <<>>]
  ELSE LET acc == Each(base, targetURL, [reg |-> reg, newInternalLinks |-> <<>>],
                       ScannedElements(resp.body))
       IN [err |-> "", reg |-> acc.reg, newInternalLinks |-> acc.newInternalLinks]

\* ------------------------------------------------------------- the state

VARIABLES
  baseURL,        \* ls.baseURL (before NewLinkScraper: the seed argument)
  outputDir,      \* ls.outputDir
  maxDepth,       \* ls.maxDepth
  visitedURL,     \* the keys of ls.visitedURL (every stored value is true)
  links,          \* ls.links
  internalLinks,  \* ls.internalLinks
  externalLinks,  \* ls.externalLinks
  errors,         \* ls.errors: [url, err] per entry
  currentDepth,   \* ls.currentDepth
  stack,          \* the active calls of ScrapeLinksRecursive, innermost last
  mainpc,         \* where main is
  results,        \* what GetResults last returned
  fetched,        \* the calls of scrapePage so far: [url, depth, err, body, cands],
                  \* body the document it read (<<>> when it failed before)
  mutex,          \* ls.mutex: [writers, readers], the goroutines that hold it
  tpc,            \* per goroutine: where it is in the method it runs
  targ,           \* per goroutine: the argument of that method
  tlocal          \* per goroutine: the local variable of that method

vars ==
  << baseURL, outputDir, maxDepth, visitedURL, links, internalLinks, externalLinks,
     errors, currentDepth, stack, mainpc, results, fetched,
     mutex, tpc, targ, tlocal >>

\* the state of the concurrent callers
conc == << mutex, tpc, targ, tlocal >>

\* the goroutines
Threads == 1..NThreads

\* the goroutine that runs main
MainThread == 0

\* sync.RWMutex, unlocked
Unlocked == [writers |-> {}, readers |-> {}]

\* mutant of CanLock: Lock() that excludes nobody
CanLockAlways(m) == TRUE

\* ls.mutex.Lock() returns: no writer and no reader holds the mutex
CanLock(m) == m.writers = {} /\ m.readers = {}

\* mutant of CanRLock: RLock() that does not wait for the writer
CanRLockAlways(m) == TRUE

\* ls.mutex.RLock() returns: no writer holds the mutex
CanRLock(m) == m.writers = {}

\* the mutex after t's Lock()
Lock(m, t) == [m EXCEPT !.writers = @ \cup {t}]

\* mutant of Unlock: the Unlock() is forgotten
UnlockForgotten(m, t) == m

\* the mutex after t's Unlock()
Unlock(m, t) == [m EXCEPT !.writers = @ \ {t}]

\* the mutex after t's RLock()
RLock(m, t) == [m EXCEPT !.readers = @ \cup {t}]

\* mutant of RUnlock: the RUnlock() is forgotten
RUnlockForgotten(m, t) == m

\* the mutex after t's RUnlock()
RUnlock(m, t) == [m EXCEPT !.readers = @ \ {t}]

\* mutant of NextDepth: the recursive call passes depth on unchanged
NextDepthStuck(depth) == depth

\* the depth of the recursive call: ls.ScrapeLinksRecursive(link, depth+1)
NextDepth(depth) == depth + 1

\* mutant of Mark: the URL is not recorded
MarkNothing(visited, url) == visited

\* ls.visitedURL[targetURL] = true
Mark(visited, url) == visited \cup {url}

NoResults == [TotalLinks |-> -1]

Frame(url, depth) == [url |-> url, depth |-> depth, pc |-> "admit", cands |-> <<>>, i |-> 1]

Top == stack[Len(stack)]

Pop == SubSeq(stack, 1, Len(stack) - 1)

SetTop(f) == [stack EXCEPT ![Len(stack)] = f]

\* NewLinkScraper
Init ==
  /\ baseURL = SeedURL
  /\ outputDir = DefaultOutputDir
  /\ maxDepth \in (-1)..MaxDepthBound
  /\ visitedURL = {}
  /\ links = <<>>
  /\ internalLinks = <<>>
  /\ externalLinks = <<>>
  /\ errors = <<>>
  /\ currentDepth = 0
  /\ stack = <<>>
  /\ mainpc = "start"
  /\ results = NoResults
  /\ fetched = <<>>
  /\ mutex = Unlocked
  /\ tpc = [t \in Threads |-> "done"]
  /\ targ = [t \in Threads |-> EmptyString]
  /\ tlocal = [t \in Threads |-> FALSE]

\* an RLock() ... RUnlock() pair of the main goroutine
ReadLocked(m) == RUnlock(RLock(m, MainThread), MainThread)

\* a Lock() ... Unlock() pair of the main goroutine
WriteLocked(m) == Unlock(Lock(m, MainThread), MainThread)

\* main: scraper.ScrapeLinksRecursive(targetURL, 0)
MainScrape ==
  /\ mainpc = "start"
  /\ stack' = <<Frame(baseURL, 0)>>
  /\ mainpc' = "scraping"
  /\ UNCHANGED << baseURL, outputDir, maxDepth, visitedURL, links, internalLinks,
                  externalLinks, errors, currentDepth, results, fetched, conc >>

\* mutant of DepthExceeded: the depth is not checked
DepthExceededNever(depth) == FALSE

\* the depth guard of ScrapeLinksRecursive
DepthExceeded(depth) == depth > maxDepth

\* ScrapeLinksRecursive: if depth > ls.maxDepth { return }
ReturnTooDeep ==
  /\ stack # <<>>
  /\ Top.pc = "admit"
  /\ DepthExceeded(Top.depth)
  /\ stack' = Pop
  /\ UNCHANGED << baseURL, outputDir, maxDepth, visitedURL, links, internalLinks,
                  externalLinks, errors, currentDepth, mainpc, results, fetched, conc >>

\* mutant of RecordDepth: the depth of the last admission is recorded
RecordDepthLast(current, depth) == depth

\* if depth > ls.currentDepth { ls.currentDepth = depth }
RecordDepth(current, depth) == IF depth > current THEN depth ELSE current

\* ScrapeLinksRecursive, from the RLock to the Unlock: visited is read under
\* RLock; if visited { return }; else, under Lock,
\* ls.visitedURL[targetURL] = true and the depth record
Admit ==
  /\ stack # <<>>
  /\ Top.pc = "admit"
  /\ ~DepthExceeded(Top.depth)
  /\ CanRLock(mutex)
  /\ IF Top.url \in visitedURL
     THEN /\ mutex' = ReadLocked(mutex)
          /\ stack' = Pop
          /\ UNCHANGED << visitedURL, currentDepth >>
     ELSE /\ CanLock(ReadLocked(mutex))
          /\ visitedURL' = Mark(visitedURL, Top.url)
          /\ currentDepth' = RecordDepth(currentDepth, Top.depth)
          /\ mutex' = WriteLocked(ReadLocked(mutex))
          /\ stack' = SetTop([Top EXCEPT !.pc = "scrape"])
  /\ UNCHANGED << baseURL, outputDir, maxDepth, links, internalLinks, externalLinks,
                  errors, mainpc, results, fetched, tpc, targ, tlocal >>

\* mutant of addError: the entry is dropped
addErrorDropped(errs, url, err) == errs

\* mutant of addError: the list is overwritten with the new entry
addErrorOverwrites(errs, url, err) == << [url |-> url, err |-> err] >>

\* mutant of addError: the entry is appended twice
addErrorTwice(errs, url, err) ==
  Append(Append(errs, [url |-> url, err |-> err]), [url |-> url, err |-> err])

\* addError: one entry naming the URL (the timestamp is left out)
addError(errs, url, err) == Append(errs, [url |-> url, err |-> err])

\* the lists of the scraper, as addLink and scrapePage take them
Registry == [links |-> links, internalLinks |-> internalLinks,
             externalLinks |-> externalLinks]

\* ScrapeLinksRecursive: scrapePage failed, ls.addError (under Lock) and return
ScrapeFails ==
  /\ stack # <<>>
  /\ Top.pc = "scrape"
  /\ \E resp \in Responses :
       LET r == scrapePage(baseURL, Registry, Top.url, resp)
       IN /\ r.err # ""
          /\ CanLock(mutex)
          /\ errors' = addError(errors, Top.url, r.err)
          /\ links' = r.reg.links
          /\ internalLinks' = r.reg.internalLinks
          /\ externalLinks' = r.reg.externalLinks
          /\ fetched' = Append(fetched, [url |-> Top.url, depth |-> Top.depth,
                                         env |-> resp.env, err |-> r.err,
                                         body |-> <<>>, cands |-> <<>>])
  /\ mutex' = WriteLocked(mutex)
  /\ stack' = Pop
  /\ UNCHANGED << baseURL, outputDir, maxDepth, visitedURL, currentDepth, mainpc, results,
                  tpc, targ, tlocal >>

\* scrapePage calls addLink, which takes the Lock, for every kept reference
CallsAddLink(targetURL, body) ==
  \E i \in 1..Len(ScannedElements(body)) :
    normalizeURL(ScannedElements(body)[i].href, targetURL) # EmptyString

\* ScrapeLinksRecursive: scrapePage succeeded
ScrapeSucceeds ==
  /\ stack # <<>>
  /\ Top.pc = "scrape"
  /\ \E resp \in Responses :
       LET r == scrapePage(baseURL, Registry, Top.url, resp)
       IN /\ r.err = ""
          /\ CallsAddLink(Top.url, resp.body) => CanLock(mutex)
          /\ mutex' = IF CallsAddLink(Top.url, resp.body) THEN WriteLocked(mutex) ELSE mutex
          /\ links' = r.reg.links
          /\ internalLinks' = r.reg.internalLinks
          /\ externalLinks' = r.reg.externalLinks
          /\ fetched' = Append(fetched, [url |-> Top.url, depth |-> Top.depth,
                                         env |-> resp.env, err |-> "",
                                         body |-> resp.body,
                                         cands |-> r.newInternalLinks])
          /\ stack' = SetTop([Top EXCEPT !.pc = "loop", !.cands = r.newInternalLinks])
  /\ UNCHANGED << baseURL, outputDir, maxDepth, visitedURL, errors, currentDepth, mainpc, results,
                  tpc, targ, tlocal >>

\* the guard of the recursion: if depth < ls.maxDepth
MayRecurse(depth) == depth < maxDepth

\* the loop over newInternalLinks: a candidate not yet visited (read under
\* RLock) is scraped
LoopRecurse ==
  /\ stack # <<>>
  /\ Top.pc = "loop"
  /\ MayRecurse(Top.depth)
  /\ Top.i <= Len(Top.cands)
  /\ CanRLock(mutex)
  /\ Top.cands[Top.i] \notin visitedURL
  /\ mutex' = ReadLocked(mutex)
  /\ stack' = Append(SetTop([Top EXCEPT !.i = @ + 1]),
                     Frame(Top.cands[Top.i], NextDepth(Top.depth)))
  /\ UNCHANGED << baseURL, outputDir, maxDepth, visitedURL, links, internalLinks,
                  externalLinks, errors, currentDepth, mainpc, results, fetched,
                  tpc, targ, tlocal >>

\* the loop over newInternalLinks: a candidate already visited is skipped
LoopSkip ==
  /\ stack # <<>>
  /\ Top.pc = "loop"
  /\ MayRecurse(Top.depth)
  /\ Top.i <= Len(Top.cands)
  /\ CanRLock(mutex)
  /\ Top.cands[Top.i] \in visitedURL
  /\ mutex' = ReadLocked(mutex)
  /\ stack' = SetTop([Top EXCEPT !.i = @ + 1])
  /\ UNCHANGED << baseURL, outputDir, maxDepth, visitedURL, links, internalLinks,
                  externalLinks, errors, currentDepth, mainpc, results, fetched,
                  tpc, targ, tlocal >>

\* the end of ScrapeLinksRecursive: the loop is over, or the depth is maxDepth
ReturnDone ==
  /\ stack # <<>>
  /\ Top.pc = "loop"
  /\ ~MayRecurse(Top.depth) \/ Top.i > Len(Top.cands)
  /\ stack' = Pop
  /\ UNCHANGED << baseURL, outputDir, maxDepth, visitedURL, links, internalLinks,
                  externalLinks, errors, currentDepth, mainpc, results, fetched, conc >>

\* mutant of GetResults: PagesVisited counts the links, not the visited URLs
GetResultsCountsLinks ==
  [ BaseURL |-> baseURL,
    TotalLinks |-> Len(links),
    InternalLinks |-> internalLinks,
    ExternalLinks |-> externalLinks,
    AllLinks |-> links,
    Errors |-> errors,
    PagesVisited |-> Len(links),
    InternalCount |-> Len(internalLinks),
    ExternalCount |-> Len(externalLinks),
    ErrorsCount |-> Len(errors),
    MaxDepthReached |-> currentDepth ]

\* the links a result lists under category c: ScrapingResults has the fields
\* BaseURL, TotalLinks, InternalLinks, ExternalLinks, AllLinks, Errors,
\* Statistics and Timestamp, and none per category
ByCategory(res, c) == <<>>

\* GetResults: the lists and the statistics
GetResults ==
  [ BaseURL |-> baseURL,
    TotalLinks |-> Len(links),
    InternalLinks |-> internalLinks,
    ExternalLinks |-> externalLinks,
    AllLinks |-> links,
    Errors |-> errors,
    PagesVisited |-> Cardinality(visitedURL),
    InternalCount |-> Len(internalLinks),
    ExternalCount |-> Len(externalLinks),
    ErrorsCount |-> Len(errors),
    MaxDepthReached |-> currentDepth ]

\* main: scraper.SaveResults(), which calls GetResults (under RLock)
MainSaveResults ==
  /\ mainpc = "scraping"
  /\ stack = <<>>
  /\ CanRLock(mutex)
  /\ results' = GetResults
  /\ mutex' = ReadLocked(mutex)
  /\ mainpc' = "saved"
  /\ UNCHANGED << baseURL, outputDir, maxDepth, visitedURL, links, internalLinks,
                  externalLinks, errors, currentDepth, stack, fetched,
                  tpc, targ, tlocal >>

\* main: scraper.PrintDetailedStats(), which calls GetResults (under RLock)
MainPrintDetailedStats ==
  /\ mainpc = "saved"
  /\ CanRLock(mutex)
  /\ results' = GetResults
  /\ mutex' = ReadLocked(mutex)
  /\ mainpc' = "done"
  /\ UNCHANGED << baseURL, outputDir, maxDepth, visitedURL, links, internalLinks,
                  externalLinks, errors, currentDepth, stack, fetched,
                  tpc, targ, tlocal >>

Next ==
  \/ MainScrape
  \/ ReturnTooDeep
  \/ Admit
  \/ ScrapeFails
  \/ ScrapeSucceeds
  \/ LoopRecurse
  \/ LoopSkip
  \/ ReturnDone
  \/ MainSaveResults
  \/ MainPrintDetailedStats

Spec == Init /\ [][Next]_vars

\* the run with its scheduling: the main goroutine runs whenever it can
SpecFair == Spec /\ WF_vars(Next)

\* ---------------------------------------------------- concurrent callers
\* The methods of one LinkScraper called from NThreads goroutines, each
\* goroutine making one call: ScrapeLinksRecursive up to its call of
\* scrapePage, addLink, or GetResults.  A step is what a goroutine does
\* between two operations on ls.mutex or on a field of ls.

\* the canonical URLs of the references of the modelled site
UrlA == normalizeURL(HrefA, SeedURL)
UrlExt == normalizeURL(HrefExt, SeedURL)

\* the (targetURL, depth) the goroutines call ScrapeLinksRecursive with
ConcTargets == { [url |-> SeedURL, depth |-> 0], [url |-> UrlA, depth |-> 1] }

\* the links the goroutines call addLink with
ConcLinks == { UrlA, UrlExt }

InitConc ==
  /\ baseURL = SeedURL
  /\ outputDir = DefaultOutputDir
  /\ maxDepth \in 0..MaxDepthBound
  /\ visitedURL = {}
  /\ links = <<>>
  /\ internalLinks = <<>>
  /\ externalLinks = <<>>
  /\ errors = <<>>
  /\ currentDepth = 0
  /\ stack = <<>>
  /\ mainpc = "start"
  /\ results = NoResults
  /\ fetched = <<>>
  /\ mutex = Unlocked
  /\ tpc = [t \in Threads |-> "idle"]
  /\ targ = [t \in Threads |-> EmptyString]
  /\ tlocal = [t \in Threads |-> FALSE]

\* a goroutine calls ScrapeLinksRecursive(targetURL, depth)
ConcCallScrape(t) ==
  /\ tpc[t] = "idle"
  /\ \E f \in ConcTargets : targ' = [targ EXCEPT ![t] = f]
  /\ tpc' = [tpc EXCEPT ![t] = "s_entry"]
  /\ UNCHANGED << baseURL, outputDir, maxDepth, visitedURL, links, internalLinks, externalLinks,
                  errors, currentDepth, stack, mainpc, results, fetched, mutex, tlocal >>

\* if depth > ls.maxDepth { return }
ConcReturnTooDeep(t) ==
  /\ tpc[t] = "s_entry"
  /\ DepthExceeded(targ[t].depth)
  /\ tpc' = [tpc EXCEPT ![t] = "s_done"]
  /\ UNCHANGED << baseURL, outputDir, maxDepth, visitedURL, links, internalLinks, externalLinks,
                  errors, currentDepth, stack, mainpc, results, fetched, mutex, targ,
                  tlocal >>

\* ls.mutex.RLock()
ConcScrapeRLock(t) ==
  /\ tpc[t] = "s_entry"
  /\ ~DepthExceeded(targ[t].depth)
  /\ CanRLock(mutex)
  /\ mutex' = RLock(mutex, t)
  /\ tpc' = [tpc EXCEPT ![t] = "s_read"]
  /\ UNCHANGED << baseURL, outputDir, maxDepth, visitedURL, links, internalLinks, externalLinks,
                  errors, currentDepth, stack, mainpc, results, fetched, targ, tlocal >>

\* visited := ls.visitedURL[targetURL]; ls.mutex.RUnlock()
ConcReadVisited(t) ==
  /\ tpc[t] = "s_read"
  /\ tlocal' = [tlocal EXCEPT ![t] = (targ[t].url \in visitedURL)]
  /\ mutex' = RUnlock(mutex, t)
  /\ tpc' = [tpc EXCEPT ![t] = "s_check"]
  /\ UNCHANGED << baseURL, outputDir, maxDepth, visitedURL, links, internalLinks, externalLinks,
                  errors, currentDepth, stack, mainpc, results, fetched, targ >>

\* if visited { return }
ConcReturnVisited(t) ==
  /\ tpc[t] = "s_check"
  /\ tlocal[t]
  /\ tpc' = [tpc EXCEPT ![t] = "s_done"]
  /\ UNCHANGED << baseURL, outputDir, maxDepth, visitedURL, links, internalLinks, externalLinks,
                  errors, currentDepth, stack, mainpc, results, fetched, mutex, targ,
                  tlocal >>

\* ls.mutex.Lock() of the admission
ConcScrapeLock(t) ==
  /\ tpc[t] = "s_check"
  /\ ~tlocal[t]
  /\ CanLock(mutex)
  /\ mutex' = Lock(mutex, t)
  /\ tpc' = [tpc EXCEPT ![t] = "s_mark"]
  /\ UNCHANGED << baseURL, outputDir, maxDepth, visitedURL, links, internalLinks, externalLinks,
                  errors, currentDepth, stack, mainpc, results, fetched, targ, tlocal >>

\* ls.visitedURL[targetURL] = true, the depth record, ls.mutex.Unlock()
ConcMarkVisited(t) ==
  /\ tpc[t] = "s_mark"
  /\ visitedURL' = Mark(visitedURL, targ[t].url)
  /\ currentDepth' = RecordDepth(currentDepth, targ[t].depth)
  /\ mutex' = Unlock(mutex, t)
  /\ tpc' = [tpc EXCEPT ![t] = "s_fetch"]
  /\ UNCHANGED << baseURL, outputDir, maxDepth, links, internalLinks, externalLinks,
                  errors, stack, mainpc, results, fetched, targ, tlocal >>

\* ls.scrapePage(targetURL, depth) is called
ConcScrapePage(t) ==
  /\ tpc[t] = "s_fetch"
  /\ fetched' = Append(fetched, [url |-> targ[t].url, depth |-> targ[t].depth, by |-> t])
  /\ tpc' = [tpc EXCEPT ![t] = "s_done"]
  /\ UNCHANGED << baseURL, outputDir, maxDepth, visitedURL, links, internalLinks, externalLinks,
                  errors, currentDepth, stack, mainpc, results, mutex, targ, tlocal >>

\* a goroutine calls addLink(link)
ConcCallAddLink(t) ==
  /\ tpc[t] = "idle"
  /\ \E l \in ConcLinks : targ' = [targ EXCEPT ![t] = l]
  /\ tpc' = [tpc EXCEPT ![t] = "a_entry"]
  /\ UNCHANGED << baseURL, outputDir, maxDepth, visitedURL, links, internalLinks, externalLinks,
                  errors, currentDepth, stack, mainpc, results, fetched, mutex, tlocal >>

\* addLink: ls.mutex.Lock()
ConcAddLinkLock(t) ==
  /\ tpc[t] = "a_entry"
  /\ CanLock(mutex)
  /\ mutex' = Lock(mutex, t)
  /\ tpc' = [tpc EXCEPT ![t] = "a_scan"]
  /\ UNCHANGED << baseURL, outputDir, maxDepth, visitedURL, links, internalLinks, externalLinks,
                  errors, currentDepth, stack, mainpc, results, fetched, targ, tlocal >>

\* addLink: the loop over ls.links that looks for the link
ConcAddLinkScan(t) ==
  /\ tpc[t] = "a_scan"
  /\ tlocal' = [tlocal EXCEPT ![t] = Registered(links, targ[t])]
  /\ tpc' = [tpc EXCEPT ![t] = "a_found"]
  /\ UNCHANGED << baseURL, outputDir, maxDepth, visitedURL, links, internalLinks, externalLinks,
                  errors, currentDepth, stack, mainpc, results, fetched, mutex, targ >>

\* addLink: the link was found in ls.links, return (the deferred Unlock runs)
ConcAddLinkDuplicate(t) ==
  /\ tpc[t] = "a_found"
  /\ tlocal[t]
  /\ mutex' = Unlock(mutex, t)
  /\ tpc' = [tpc EXCEPT ![t] = "a_done"]
  /\ UNCHANGED << baseURL, outputDir, maxDepth, visitedURL, links, internalLinks, externalLinks,
                  errors, currentDepth, stack, mainpc, results, fetched, targ, tlocal >>

\* addLink: ls.links = append(ls.links, link)
ConcAddLinkAppend(t) ==
  /\ tpc[t] = "a_found"
  /\ ~tlocal[t]
  /\ links' = Append(links, targ[t])
  /\ tpc' = [tpc EXCEPT ![t] = "a_classify"]
  /\ UNCHANGED << baseURL, outputDir, maxDepth, visitedURL, internalLinks, externalLinks,
                  errors, currentDepth, stack, mainpc, results, fetched, mutex, targ,
                  tlocal >>

\* addLink: the append to internalLinks or externalLinks, and the deferred Unlock
ConcAddLinkClassify(t) ==
  /\ tpc[t] = "a_classify"
  /\ LET reg == addLink(baseURL, [Registry EXCEPT !.links = <<>>], targ[t])
     IN /\ internalLinks' = reg.internalLinks
        /\ externalLinks' = reg.externalLinks
  /\ mutex' = Unlock(mutex, t)
  /\ tpc' = [tpc EXCEPT ![t] = "a_done"]
  /\ UNCHANGED << baseURL, outputDir, maxDepth, visitedURL, links, errors, currentDepth, stack,
                  mainpc, results, fetched, targ, tlocal >>

\* a goroutine calls GetResults()
ConcCallGetResults(t) ==
  /\ tpc[t] = "idle"
  /\ tpc' = [tpc EXCEPT ![t] = "g_entry"]
  /\ UNCHANGED << baseURL, outputDir, maxDepth, visitedURL, links, internalLinks, externalLinks,
                  errors, currentDepth, stack, mainpc, results, fetched, mutex, targ,
                  tlocal >>

\* GetResults: ls.mutex.RLock()
ConcGetResultsRLock(t) ==
  /\ tpc[t] = "g_entry"
  /\ CanRLock(mutex)
  /\ mutex' = RLock(mutex, t)
  /\ tpc' = [tpc EXCEPT ![t] = "g_read"]
  /\ UNCHANGED << baseURL, outputDir, maxDepth, visitedURL, links, internalLinks, externalLinks,
                  errors, currentDepth, stack, mainpc, results, fetched, targ, tlocal >>

\* GetResults: the result is built, the deferred RUnlock runs
ConcGetResultsRead(t) ==
  /\ tpc[t] = "g_read"
  /\ tlocal' = [tlocal EXCEPT ![t] = GetResults]
  /\ mutex' = RUnlock(mutex, t)
  /\ tpc' = [tpc EXCEPT ![t] = "returned"]
  /\ UNCHANGED << baseURL, outputDir, maxDepth, visitedURL, links, internalLinks, externalLinks,
                  errors, currentDepth, stack, mainpc, results, fetched, targ >>

NextConc ==
  \E t \in Threads :
    \/ ConcCallScrape(t)
    \/ ConcReturnTooDeep(t)
    \/ ConcScrapeRLock(t)
    \/ ConcReadVisited(t)
    \/ ConcReturnVisited(t)
    \/ ConcScrapeLock(t)
    \/ ConcMarkVisited(t)
    \/ ConcScrapePage(t)
    \/ ConcCallAddLink(t)
    \/ ConcAddLinkLock(t)
    \/ ConcAddLinkScan(t)
    \/ ConcAddLinkDuplicate(t)
    \/ ConcAddLinkAppend(t)
    \/ ConcAddLinkClassify(t)
    \/ ConcCallGetResults(t)
    \/ ConcGetResultsRLock(t)
    \/ ConcGetResultsRead(t)

SpecConc == InitConc /\ [][NextConc]_vars

\* ------------------------------------- the admission, called concurrently
\* ScrapeLinksRecursive called from NThreads goroutines, each making one
\* call, up to its call of scrapePage; the same URL is reached at two depths.

\* the (targetURL, depth) of these calls
AdmissionTargets == ConcTargets \cup { [url |-> UrlA, depth |-> 0] }

\* a goroutine calls ScrapeLinksRecursive(targetURL, depth)
AdmissionCallScrape(t) ==
  /\ tpc[t] = "idle"
  /\ \E f \in AdmissionTargets : targ' = [targ EXCEPT ![t] = f]
  /\ tpc' = [tpc EXCEPT ![t] = "s_entry"]
  /\ UNCHANGED << baseURL, outputDir, maxDepth, visitedURL, links, internalLinks,
                  externalLinks, errors, currentDepth, stack, mainpc, results, fetched,
                  mutex, tlocal >>

NextAdmission ==
  \E t \in Threads :
    \/ AdmissionCallScrape(t)
    \/ ConcReturnTooDeep(t)
    \/ ConcScrapeRLock(t)
    \/ ConcReadVisited(t)
    \/ ConcReturnVisited(t)
    \/ ConcScrapeLock(t)
    \/ ConcMarkVisited(t)
    \/ ConcScrapePage(t)

SpecAdmission == InitConc /\ [][NextAdmission]_vars

\* ----------------------------------------- the registry, called concurrently
\* addLink, addError and GetResults of one LinkScraper called from NThreads
\* goroutines, each goroutine making one call.

\* the URLs the goroutines report an error on
ConcErrorURLs == { SeedURL, UrlA }

\* a goroutine calls addError("Erreur sur <url>: <err>")
ConcCallAddError(t) ==
  /\ tpc[t] = "idle"
  /\ \E u \in ConcErrorURLs : targ' = [targ EXCEPT ![t] = [url |-> u, err |-> "request"]]
  /\ tpc' = [tpc EXCEPT ![t] = "e_entry"]
  /\ UNCHANGED << baseURL, outputDir, maxDepth, visitedURL, links, internalLinks,
                  externalLinks, errors, currentDepth, stack, mainpc, results, fetched,
                  mutex, tlocal >>

\* addError: ls.mutex.Lock()
ConcAddErrorLock(t) ==
  /\ tpc[t] = "e_entry"
  /\ CanLock(mutex)
  /\ mutex' = Lock(mutex, t)
  /\ tpc' = [tpc EXCEPT ![t] = "e_read"]
  /\ UNCHANGED << baseURL, outputDir, maxDepth, visitedURL, links, internalLinks,
                  externalLinks, errors, currentDepth, stack, mainpc, results, fetched,
                  targ, tlocal >>

\* addError: append(ls.errors, ...) reads ls.errors
ConcAddErrorRead(t) ==
  /\ tpc[t] = "e_read"
  /\ tlocal' = [tlocal EXCEPT ![t] = errors]
  /\ tpc' = [tpc EXCEPT ![t] = "e_write"]
  /\ UNCHANGED << baseURL, outputDir, maxDepth, visitedURL, links, internalLinks,
                  externalLinks, errors, currentDepth, stack, mainpc, results, fetched,
                  mutex, targ >>

\* addError: ls.errors = the appended slice, and the deferred Unlock
ConcAddErrorWrite(t) ==
  /\ tpc[t] = "e_write"
  /\ errors' = addError(tlocal[t], targ[t].url, targ[t].err)
  /\ mutex' = Unlock(mutex, t)
  /\ tpc' = [tpc EXCEPT ![t] = "e_done"]
  /\ UNCHANGED << baseURL, outputDir, maxDepth, visitedURL, links, internalLinks,
                  externalLinks, currentDepth, stack, mainpc, results, fetched,
                  targ, tlocal >>

NextRegistry ==
  \E t \in Threads :
    \/ ConcCallAddLink(t)
    \/ ConcAddLinkLock(t)
    \/ ConcAddLinkScan(t)
    \/ ConcAddLinkDuplicate(t)
    \/ ConcAddLinkAppend(t)
    \/ ConcAddLinkClassify(t)
    \/ ConcCallAddError(t)
    \/ ConcAddErrorLock(t)
    \/ ConcAddErrorRead(t)
    \/ ConcAddErrorWrite(t)
    \/ ConcCallGetResults(t)
    \/ ConcGetResultsRLock(t)
    \/ ConcGetResultsRead(t)

SpecRegistry == InitConc /\ [][NextRegistry]_vars

\* ------------------------------------------------- the URL functions
\* normalizeURL and isInternalLink called on their own: a goroutine calls
\* normalizeURL(href, baseURL), then either normalizes the result again or
\* registers it as scrapePage does, or it calls isInternalLink(link).  The
\* functions share no state but ls.baseURL, so one call is followed at a time.

\* other seeds a scraper is built with
SeedWww == URLString("https", <<"www", "ex", "com">>, "/", <<>>, "")
SeedUpper == URLString("https", <<"WWW", "EX", "COM">>, "/", <<>>, "")
URLSeeds == { SeedURL, SeedWww, SeedUpper }

\* a string url.Parse rejects
Unparsable == URLString("%invalid", <<>>, "", <<>>, "")

\* the href attributes normalizeURL is called with
HrefBlank == [EmptyString EXCEPT !.pad = TRUE]
HrefFragment == URLString("", <<>>, "", <<>>, "top")
HrefMailto == URLString("mailto", <<>>, "a@ex.com", <<>>, "")
HrefTel == URLString("tel", <<>>, "+1234", <<>>, "")
HrefFtp == URLString("ftp", <<"ex", "com">>, "/f", <<>>, "")
HrefFile == URLString("file", <<>>, "/etc/hosts", <<>>, "")
HrefData == URLString("data", <<>>, "text/html,hi", <<>>, "")
HrefJsUpper == URLString("JAVASCRIPT", <<>>, "void(0)", <<>>, "")
HrefPadded == [HrefA EXCEPT !.pad = TRUE]
HrefPage ==
  URLString("https", <<"ex", "com">>, "/page",
            << [k |-> "utm_source", v |-> "x"], [k |-> "id", v |-> "7"] >>, "top")
HrefPageUnsorted ==
  URLString("", <<>>, "/page",
            << [k |-> "page", v |-> "2"], [k |-> "fbclid", v |-> "z"],
               [k |-> "id", v |-> "7"] >>, "")
HrefBadEscape ==
  URLString("https", <<"ex", "com">>, "/page", << [k |-> "id", v |-> "%zz"] >>, "")
HrefQueryOnly == URLString("", <<>>, "", << [k |-> "id", v |-> "7"] >>, "top")

URLHrefs ==
  { EmptyString, HrefBlank, HrefFragment, HrefJs, HrefMailto, HrefTel, HrefFtp,
    HrefFile, HrefData, HrefJsUpper, HrefA, HrefPadded, HrefC, HrefExt, HrefPage,
    HrefPageUnsorted, HrefBadEscape, HrefQueryOnly, Unparsable }

\* the page URLs normalizeURL is called with
PageURL == URLString("https", <<"ex", "com">>, "/page", << [k |-> "id", v |-> "7"] >>, "")
URLBases == { SeedURL, PageURL, Unparsable }

\* the links isInternalLink is called with
LinkBlog == URLString("https", <<"blog", "ex", "com">>, "/", <<>>, "")
LinkWwwWww == URLString("https", <<"www", "www", "ex", "com">>, "/", <<>>, "")
LinkWwwOther == URLString("https", <<"www", "other", "org">>, "/", <<>>, "")
LinkBare == URLString("https", <<"ex", "com">>, "/b", <<>>, "")
LinkWww == URLString("https", <<"www", "ex", "com">>, "/b", <<>>, "")
LinkUpper == URLString("https", <<"WWW", "ex", "com">>, "/c", <<>>, "")
LinkOnlyWww == URLString("https", <<"www">>, "/", <<>>, "")
URLLinks ==
  { LinkBare, LinkWww, LinkUpper, LinkBlog, LinkWwwWww, LinkWwwOther, LinkOnlyWww,
    HrefExt, HrefA, HrefData, Unparsable }

InitURL ==
  /\ baseURL \in URLSeeds
  /\ outputDir = DefaultOutputDir
  /\ maxDepth \in 0..MaxDepthBound
  /\ visitedURL = {}
  /\ links = <<>>
  /\ internalLinks = <<>>
  /\ externalLinks = <<>>
  /\ errors = <<>>
  /\ currentDepth = 0
  /\ stack = <<>>
  /\ mainpc = "start"
  /\ results = NoResults
  /\ fetched = <<>>
  /\ mutex = Unlocked
  /\ tpc = [t \in Threads |-> "idle"]
  /\ targ = [t \in Threads |-> EmptyString]
  /\ tlocal = [t \in Threads |-> FALSE]

\* no other goroutine has made its call
OnlyCaller(t) == \A o \in Threads \ {t} : tpc[o] = "idle"

\* a goroutine calls normalizeURL(href, baseURL)
URLCallNormalize(t) ==
  /\ tpc[t] = "idle"
  /\ OnlyCaller(t)
  /\ \E h \in URLHrefs, b \in URLBases :
       targ' = [targ EXCEPT ![t] = [href |-> h, base |-> b]]
  /\ tpc' = [tpc EXCEPT ![t] = "n_called"]
  /\ UNCHANGED << baseURL, outputDir, maxDepth, visitedURL, links, internalLinks,
                  externalLinks, errors, currentDepth, stack, mainpc, results, fetched,
                  mutex, tlocal >>

\* cleanURL := ls.normalizeURL(href, targetURL)
URLNormalizeReturns(t) ==
  /\ tpc[t] = "n_called"
  /\ tlocal' = [tlocal EXCEPT ![t] = [cleanURL |-> normalizeURL(targ[t].href, targ[t].base)]]
  /\ tpc' = [tpc EXCEPT ![t] = "n_returned"]
  /\ UNCHANGED << baseURL, outputDir, maxDepth, visitedURL, links, internalLinks,
                  externalLinks, errors, currentDepth, stack, mainpc, results, fetched,
                  mutex, targ >>

\* the result is normalized again, against itself: normalizeURL(cleanURL, cleanURL)
URLNormalizeAgain(t) ==
  /\ tpc[t] = "n_returned"
  /\ tlocal[t].cleanURL # EmptyString
  /\ tlocal' = [tlocal EXCEPT ![t] =
                  [cleanURL |-> tlocal[t].cleanURL,
                   again |-> normalizeURL(tlocal[t].cleanURL, tlocal[t].cleanURL)]]
  /\ tpc' = [tpc EXCEPT ![t] = "n_again"]
  /\ UNCHANGED << baseURL, outputDir, maxDepth, visitedURL, links, internalLinks,
                  externalLinks, errors, currentDepth, stack, mainpc, results, fetched,
                  mutex, targ >>

\* scrapePage: if cleanURL != "" { ls.addLink(cleanURL) }
URLRegister(t) ==
  /\ tpc[t] = "n_returned"
  /\ tlocal[t].cleanURL # EmptyString
  /\ CanLock(mutex)
  /\ LET reg == addLink(baseURL, Registry, tlocal[t].cleanURL)
     IN /\ links' = reg.links
        /\ internalLinks' = reg.internalLinks
        /\ externalLinks' = reg.externalLinks
  /\ tpc' = [tpc EXCEPT ![t] = "n_registered"]
  /\ UNCHANGED << baseURL, outputDir, maxDepth, visitedURL, errors, currentDepth, stack,
                  mainpc, results, fetched, mutex, targ, tlocal >>

\* a goroutine calls isInternalLink(link)
URLCallIsInternal(t) ==
  /\ tpc[t] = "idle"
  /\ OnlyCaller(t)
  /\ \E l \in URLLinks : targ' = [targ EXCEPT ![t] = l]
  /\ tpc' = [tpc EXCEPT ![t] = "i_called"]
  /\ UNCHANGED << baseURL, outputDir, maxDepth, visitedURL, links, internalLinks,
                  externalLinks, errors, currentDepth, stack, mainpc, results, fetched,
                  mutex, tlocal >>

\* isInternalLink returns
URLIsInternalReturns(t) ==
  /\ tpc[t] = "i_called"
  /\ tlocal' = [tlocal EXCEPT ![t] = isInternalLink(baseURL, targ[t])]
  /\ tpc' = [tpc EXCEPT ![t] = "i_returned"]
  /\ UNCHANGED << baseURL, outputDir, maxDepth, visitedURL, links, internalLinks,
                  externalLinks, errors, currentDepth, stack, mainpc, results, fetched,
                  mutex, targ >>

NextURL ==
  \E t \in Threads :
    \/ URLCallNormalize(t)
    \/ URLNormalizeReturns(t)
    \/ URLNormalizeAgain(t)
    \/ URLRegister(t)
    \/ URLCallIsInternal(t)
    \/ URLIsInternalReturns(t)

SpecURL == InitURL /\ [][NextURL]_vars

\* ------------------------------------------------------- traversal branches
\* Goroutines that run whole traversal branches next to a goroutine calling
\* addLink or GetResults: after its admission a branch fetches the page, calls
\* addError when the fetch failed, and otherwise tests the internal link of
\* the page under RLock and calls ScrapeLinksRecursive on it.  The last
\* goroutine makes the calls of addLink (as scrapePage does for every
\* reference) and of GetResults; the others are the branches.

\* the internal link found on a fetched page: the seed links to /a, and /a
\* back to the seed
BranchLink(url) == IF url = SeedURL THEN UrlA ELSE SeedURL

\* scrapePage returned an error (the page that fails is the seed):
\* ls.addError(...) is called, and its return is the return of
\* ScrapeLinksRecursive
BranchScrapeFails(t) ==
  /\ tpc[t] = "s_fetch"
  /\ targ[t].url = SeedURL
  /\ targ' = [targ EXCEPT ![t] = [url |-> targ[t].url, err |-> "request"]]
  /\ tpc' = [tpc EXCEPT ![t] = "e_entry"]
  /\ UNCHANGED << baseURL, outputDir, maxDepth, visitedURL, links, internalLinks,
                  externalLinks, errors, currentDepth, stack, mainpc, results, fetched,
                  mutex, tlocal >>

\* scrapePage returned newInternalLinks, here one link; if depth < ls.maxDepth
\* the loop over it is entered, else the call returns
BranchScrapeSucceeds(t) ==
  /\ tpc[t] = "s_fetch"
  /\ IF MayRecurse(targ[t].depth)
     THEN /\ tlocal' = [tlocal EXCEPT ![t] = BranchLink(targ[t].url)]
          /\ tpc' = [tpc EXCEPT ![t] = "l_loop"]
     ELSE /\ tlocal' = tlocal
          /\ tpc' = [tpc EXCEPT ![t] = "s_done"]
  /\ UNCHANGED << baseURL, outputDir, maxDepth, visitedURL, links, internalLinks,
                  externalLinks, errors, currentDepth, stack, mainpc, results, fetched,
                  mutex, targ >>

\* the loop: ls.mutex.RLock()
BranchLoopRLock(t) ==
  /\ tpc[t] = "l_loop"
  /\ CanRLock(mutex)
  /\ mutex' = RLock(mutex, t)
  /\ tpc' = [tpc EXCEPT ![t] = "l_read"]
  /\ UNCHANGED << baseURL, outputDir, maxDepth, visitedURL, links, internalLinks,
                  externalLinks, errors, currentDepth, stack, mainpc, results, fetched,
                  targ, tlocal >>

\* alreadyVisited := ls.visitedURL[link]; ls.mutex.RUnlock()
BranchLoopRead(t) ==
  /\ tpc[t] = "l_read"
  /\ tlocal' = [tlocal EXCEPT ![t] =
                  [link |-> tlocal[t], alreadyVisited |-> (tlocal[t] \in visitedURL)]]
  /\ mutex' = RUnlock(mutex, t)
  /\ tpc' = [tpc EXCEPT ![t] = "l_check"]
  /\ UNCHANGED << baseURL, outputDir, maxDepth, visitedURL, links, internalLinks,
                  externalLinks, errors, currentDepth, stack, mainpc, results, fetched,
                  targ >>

\* the link is already visited: the loop is over and the call returns
BranchLoopSkip(t) ==
  /\ tpc[t] = "l_check"
  /\ tlocal[t].alreadyVisited
  /\ tlocal' = [tlocal EXCEPT ![t] = FALSE]
  /\ tpc' = [tpc EXCEPT ![t] = "s_done"]
  /\ UNCHANGED << baseURL, outputDir, maxDepth, visitedURL, links, internalLinks,
                  externalLinks, errors, currentDepth, stack, mainpc, results, fetched,
                  mutex, targ >>

\* if !alreadyVisited { ls.ScrapeLinksRecursive(link, depth+1) }: the last
\* statement of the caller, so the goroutine goes on as the callee
BranchRecurse(t) ==
  /\ tpc[t] = "l_check"
  /\ ~tlocal[t].alreadyVisited
  /\ targ' = [targ EXCEPT ![t] = [url |-> tlocal[t].link, depth |-> NextDepth(targ[t].depth)]]
  /\ tlocal' = [tlocal EXCEPT ![t] = FALSE]
  /\ tpc' = [tpc EXCEPT ![t] = "s_entry"]
  /\ UNCHANGED << baseURL, outputDir, maxDepth, visitedURL, links, internalLinks,
                  externalLinks, errors, currentDepth, stack, mainpc, results, fetched,
                  mutex >>

\* a goroutine calls a method: a branch calls ScrapeLinksRecursive, the last
\* goroutine addLink on /a or GetResults
BranchCall(t) ==
  \/ t # NThreads /\ ConcCallScrape(t)
  \/ t = NThreads /\ ConcCallAddLink(t) /\ targ'[t] = UrlA
  \/ t = NThreads /\ ConcCallGetResults(t)

\* a goroutine takes a step inside a method (the one call of addLink finds
\* ls.links empty, so its return on a link already there is not among them)
BranchStep(t) ==
  \/ ConcReturnTooDeep(t)
  \/ ConcScrapeRLock(t)
  \/ ConcReadVisited(t)
  \/ ConcReturnVisited(t)
  \/ ConcScrapeLock(t)
  \/ ConcMarkVisited(t)
  \/ BranchScrapeFails(t)
  \/ BranchScrapeSucceeds(t)
  \/ BranchLoopRLock(t)
  \/ BranchLoopRead(t)
  \/ BranchLoopSkip(t)
  \/ BranchRecurse(t)
  \/ ConcAddLinkLock(t)
  \/ ConcAddLinkScan(t)
  \/ ConcAddLinkAppend(t)
  \/ ConcAddLinkClassify(t)
  \/ ConcAddErrorLock(t)
  \/ ConcAddErrorRead(t)
  \/ ConcAddErrorWrite(t)
  \/ ConcGetResultsRLock(t)
  \/ ConcGetResultsRead(t)

NextBranches == \E t \in Threads : BranchCall(t) \/ BranchStep(t)

SpecBranches == InitConc /\ [][NextBranches]_vars

\* ------------------------------------------------------- seeds as typed
\* Runs of main on a seed given in another spelling than its canonical form:
\* targetURL := os.Args[1] goes to ScrapeLinksRecursive as it is.

SeedFragment == URLString("https", <<"ex", "com">>, "/", <<>>, "top")
SeedTracked ==
  URLString("https", <<"ex", "com">>, "/", << [k |-> "utm_source", v |-> "x"] >>, "")

TypedSeeds == { SeedFragment, SeedTracked }

InitSeeds ==
  /\ baseURL \in TypedSeeds
  /\ outputDir = DefaultOutputDir
  /\ maxDepth \in (-1)..(MaxDepthBound - 1)
  /\ visitedURL = {}
  /\ links = <<>>
  /\ internalLinks = <<>>
  /\ externalLinks = <<>>
  /\ errors = <<>>
  /\ currentDepth = 0
  /\ stack = <<>>
  /\ mainpc = "start"
  /\ results = NoResults
  /\ fetched = <<>>
  /\ mutex = Unlocked
  /\ tpc = [t \in Threads |-> "done"]
  /\ targ = [t \in Threads |-> EmptyString]
  /\ tlocal = [t \in Threads |-> FALSE]

SpecSeeds == InitSeeds /\ [][Next]_vars

\* ------------------------------------------------------- one page fetch
\* One call of scrapePage and what ScrapeLinksRecursive does with its result
\* (addError on an error), on a wider choice of responses than the runs of
\* Spec take: other encodings, documents with references that do not parse,
\* a page URL that does not parse.

\* responses with a Content-Encoding the switch of scrapePage has no case for,
\* and with deflate
BrEnvelope == Envelope(FALSE, "br", TRUE, 200, "text/html", TRUE)
DeflateEnvelope == Envelope(FALSE, "deflate", TRUE, 200, "text/html", TRUE)

\* documents with a reference url.Parse rejects
BodyUnparsableFirst == << Element("a", <<>>, Unparsable), Element("a", <<>>, HrefA) >>
BodyUnparsableMiddle ==
  << Element("a", <<>>, HrefA), Element("a", <<>>, Unparsable),
     Element("a", <<>>, HrefExt) >>

\* what the fetch of the page returns.  The body of a br response reaches the
\* parser undecoded: what the parser finds in those bytes is either nothing
\* or, the bytes of the page being stored as they are, the elements of the page
FetchResponses ==
  Responses
    \cup { [env |-> PlainOK, body |-> b] : b \in {BodyUnparsableFirst, BodyUnparsableMiddle} }
    \cup { [env |-> BrEnvelope, body |-> b] : b \in {<<>>, SampleBody} }
    \cup { [env |-> DeflateEnvelope, body |-> SampleBody] }

\* the page URLs scrapePage is called with
FetchTargets == { SeedURL, PageURL, Unparsable }

\* a goroutine calls scrapePage(targetURL, depth); the response is what the
\* server will answer
FetchCall(t) ==
  /\ tpc[t] = "idle"
  /\ OnlyCaller(t)
  /\ \E u \in FetchTargets, resp \in FetchResponses :
       targ' = [targ EXCEPT ![t] = [url |-> u, resp |-> resp]]
  /\ tpc' = [tpc EXCEPT ![t] = "f_called"]
  /\ UNCHANGED << baseURL, outputDir, maxDepth, visitedURL, links, internalLinks,
                  externalLinks, errors, currentDepth, stack, mainpc, results, fetched,
                  mutex, tlocal >>

\* newInternalLinks, err := ls.scrapePage(targetURL, depth) and
\* if err != nil { ls.addError(...) }
FetchReturns(t) ==
  /\ tpc[t] = "f_called"
  /\ CanLock(mutex)
  /\ LET r == scrapePage(baseURL, Registry, targ[t].url, targ[t].resp)
     IN /\ links' = r.reg.links
        /\ internalLinks' = r.reg.internalLinks
        /\ externalLinks' = r.reg.externalLinks
        /\ errors' = IF r.err # "" THEN addError(errors, targ[t].url, r.err) ELSE errors
        /\ tlocal' = [tlocal EXCEPT ![t] =
                        [err |-> r.err, newInternalLinks |-> r.newInternalLinks]]
  /\ tpc' = [tpc EXCEPT ![t] = "f_returned"]
  /\ UNCHANGED << baseURL, outputDir, maxDepth, visitedURL, currentDepth, stack, mainpc,
                  results, fetched, mutex, targ >>

NextFetch ==
  \E t \in Threads :
    \/ FetchCall(t)
    \/ FetchReturns(t)

SpecFetch == InitURL /\ [][NextFetch]_vars

\* ------------------------------------------------------- the whole of main
\* main from its arguments on: NewLinkScraper(targetURL, maxDepth, outputDir)
\* first, then the run of Spec.  Before the scraper exists baseURL holds the
\* seed argument and the other fields are empty.

\* an output directory os.MkdirAll cannot create
UncreatableDir == "/proc/results"

\* os.MkdirAll(dir, 0755) returns an error
MkdirAllFails(dir) == dir = UncreatableDir

\* the output directories main is started with
OutputDirs == { DefaultOutputDir, UncreatableDir }

\* the seeds main is started with
SetupSeeds == { SeedURL, Unparsable }

\* mutant of NewLinkScraperFails: the error of os.MkdirAll is ignored
NewLinkScraperIgnoresMkdir(seed, dir) == ParseFails(seed)

\* NewLinkScraper returns (nil, err)
NewLinkScraperFails(seed, dir) ==
  \/ ParseFails(seed)
  \/ dir # "" /\ MkdirAllFails(dir)

InitSetup ==
  /\ baseURL \in SetupSeeds
  /\ outputDir \in OutputDirs
  /\ maxDepth \in (-1)..MaxDepthBound
  /\ visitedURL = {}
  /\ links = <<>>
  /\ internalLinks = <<>>
  /\ externalLinks = <<>>
  /\ errors = <<>>
  /\ currentDepth = 0
  /\ stack = <<>>
  /\ mainpc = "new"
  /\ results = NoResults
  /\ fetched = <<>>
  /\ mutex = Unlocked
  /\ tpc = [t \in Threads |-> "done"]
  /\ targ = [t \in Threads |-> EmptyString]
  /\ tlocal = [t \in Threads |-> FALSE]

\* main: scraper, err := NewLinkScraper(...); if err != nil { log.Fatalf(...) }
MainNewLinkScraper ==
  /\ mainpc = "new"
  /\ IF NewLinkScraperFails(baseURL, outputDir)
     THEN /\ mainpc' = "fatal"
          /\ baseURL' = baseURL
     ELSE /\ mainpc' = "start"
          /\ baseURL' = Parse(baseURL)
  /\ UNCHANGED << outputDir, maxDepth, visitedURL, links, internalLinks,
                  externalLinks, errors, currentDepth, stack, results, fetched, conc >>

NextSetup ==
  \/ MainNewLinkScraper
  \/ Next

SpecSetup == InitSetup /\ [][NextSetup]_vars

\* ------------------------------------------------------------ properties

Range(f) == { f[i] : i \in DOMAIN f }

LastFetch(log) == log[Len(log)]

\* a response that is a failure in the words of the specification: request
\* error, status outside [200,300), content type that is not HTML, parse error
ResponseIsFailure(env) ==
  \/ env.reqErr
  \/ env.status < 200
  \/ env.status >= 300
  \/ env.ctype = "image/png"
  \/ ~env.parseOK

\* the pages fetched successfully and expanded: depth below maxDepth
Expanded == { i \in 1..Len(fetched) : fetched[i].err = "" /\ fetched[i].depth < maxDepth }

\* C1: depth bound.  No call is admitted (marked visited, fetched) at a
\* nesting depth greater than maxDepth, the depth the program counts is that
\* nesting depth, every visited URL but the seed was found on a page fetched
\* at a depth below maxDepth, and with maxDepth = 0 only the seed is visited
\* and the report says PagesVisited = 1.
C1_DepthBound ==
  /\ \A k \in 1..Len(stack) :
       stack[k].pc # "admit" => (k - 1 <= maxDepth /\ stack[k].depth = k - 1)
  /\ \A i \in 1..Len(fetched) : fetched[i].depth <= maxDepth
  /\ \A u \in visitedURL \ {baseURL} : \E i \in Expanded : u \in Range(fetched[i].cands)
  /\ maxDepth = 0 => (visitedURL \subseteq {baseURL} /\ Len(fetched) <= 1)
  /\ (maxDepth = 0 /\ mainpc = "done") => results.PagesVisited = 1

\* a finished run with maxDepth = 1 in which a page of depth 1 held a link
\* that was not followed
C1_Witness ==
  /\ mainpc = "done"
  /\ maxDepth = 1
  /\ \E i \in 1..Len(fetched) :
       /\ fetched[i].depth = 1
       /\ fetched[i].err = ""
       /\ \E c \in Range(fetched[i].cands) : c \notin visitedURL

\* C2: at most one fetch per URL in a sequential run: no two calls of
\* scrapePage have the same URL.
C2_AtMostOnceFetch ==
  \A i, j \in 1..Len(fetched) : i # j => fetched[i].url # fetched[j].url

\* a finished run in which a fetched URL was a candidate of two pages (and,
\* the anchors being scanned twice, more than once of each) and one page
\* linked back to the seed
C2_Witness ==
  /\ mainpc = "done"
  /\ \E i, j, k \in 1..Len(fetched) :
       /\ i # j
       /\ fetched[k].url \in Range(fetched[i].cands)
       /\ fetched[k].url \in Range(fetched[j].cands)
       /\ Cardinality({ n \in 1..Len(fetched[i].cands) :
                          fetched[i].cands[n] = fetched[k].url }) > 1
  /\ \E i \in 1..Len(fetched) : baseURL \in Range(fetched[i].cands)

\* C3: atomic admission under concurrency: no URL is fetched by two
\* goroutines that ran the admission of ScrapeLinksRecursive concurrently.
C3_AtomicAdmission ==
  \A i, j \in 1..Len(fetched) :
    fetched[i].by # fetched[j].by => fetched[i].url # fetched[j].url

\* C4: termination: every run, whatever the pages link to and whichever
\* fetches fail, reaches the end of main.
C4_Terminates == <>(mainpc = "done")

\* a finished run over a cyclic site: a page linked back to the seed, and at
\* least three pages were fetched, one of them in vain
C4_Witness ==
  /\ mainpc = "done"
  /\ Len(fetched) >= 3
  /\ \E i \in 1..Len(fetched) : baseURL \in Range(fetched[i].cands)
  /\ \E i \in 1..Len(fetched) : fetched[i].err # ""

\* the links followed from u: the candidates of its successful fetch
FollowedLinks(u) ==
  UNION { Range(fetched[i].cands) :
            i \in { n \in 1..Len(fetched) : fetched[n].url = u /\ fetched[n].err = "" } }

\* the breadth-first reference: the URLs at most k links away from the seed
RECURSIVE ReachableWithin(_)
ReachableWithin(k) ==
  IF k <= 0 THEN {baseURL}
  ELSE LET prev == ReachableWithin(k - 1)
       IN prev \cup UNION { FollowedLinks(u) : u \in prev }

\* C5: reachability within the depth budget: when the run ends, every URL at
\* most maxDepth links away from the seed, through successfully fetched
\* pages, is in the visited set.
C5_ReachableVisited ==
  (mainpc = "done" /\ maxDepth >= 0) => ReachableWithin(maxDepth) \subseteq visitedURL

\* C6: no duplicate registration: links never holds a URL twice, and after a
\* call addLink(u) has returned links holds u exactly once.
C6_NoDuplicateRegistration ==
  /\ \A i, j \in 1..Len(links) : i # j => links[i] # links[j]
  /\ \A t \in Threads :
       tpc[t] = "a_done" =>
         Cardinality({ i \in 1..Len(links) : links[i] = targ[t] }) = 1

\* two goroutines have called addLink with the same URL, a third with
\* another one
C6_Witness ==
  /\ \E t1, t2 \in Threads :
       /\ t1 # t2
       /\ tpc[t1] = "a_done"
       /\ tpc[t2] = "a_done"
       /\ targ[t1] = targ[t2]
  /\ Len(links) >= 2

\* all is a partition into inn and ext
Partition(all, inn, ext) ==
  /\ \A u \in Range(all) : (u \in Range(inn)) # (u \in Range(ext))
  /\ Range(inn) \cup Range(ext) \subseteq Range(all)
  /\ Len(all) = Len(inn) + Len(ext)

\* C7: partition consistency: whenever no goroutine is inside addLink's
\* critical section, and in every result GetResults has returned, links is
\* partitioned into internalLinks and externalLinks.
C7_PartitionConsistency ==
  /\ (\A t \in Threads : tpc[t] \notin {"a_scan", "a_found", "a_classify"}) =>
       Partition(links, internalLinks, externalLinks)
  /\ \A t \in Threads :
       tpc[t] = "returned" =>
         /\ Partition(tlocal[t].AllLinks, tlocal[t].InternalLinks, tlocal[t].ExternalLinks)
         /\ tlocal[t].TotalLinks = tlocal[t].InternalCount + tlocal[t].ExternalCount

\* GetResults has returned a result with an internal and an external link
C7_Witness ==
  \E t \in Threads :
    /\ tpc[t] = "returned"
    /\ tlocal[t].InternalCount >= 1
    /\ tlocal[t].ExternalCount >= 1

\* when the run is over, every candidate of every expanded page is visited
SiblingsVisited ==
  \A i \in Expanded : Range(fetched[i].cands) \subseteq visitedURL

\* C8: per-page failure isolation: the step in which a fetch fails appends
\* exactly one entry naming the URL to errors, registers no link, returns
\* from that call without expanding it and leaves main running; and at the
\* end of the run every candidate of every expanded page has been visited.
C8_FailureIsolation ==
  [][ /\ (/\ Len(fetched') = Len(fetched) + 1
          /\ ResponseIsFailure(LastFetch(fetched').env))
         => /\ Len(errors') = Len(errors) + 1
            /\ SubSeq(errors', 1, Len(errors)) = errors
            /\ errors'[Len(errors')].url = LastFetch(fetched').url
            /\ links' = links
            /\ internalLinks' = internalLinks
            /\ externalLinks' = externalLinks
            /\ stack' = Pop
            /\ mainpc' = mainpc
      /\ mainpc' = "done" => SiblingsVisited'
    ]_vars

\* a finished run with maxDepth = 1 in which the fetch of a link of the seed
\* failed and a later link of the seed was fetched
C8_Witness ==
  /\ mainpc = "done"
  /\ maxDepth = 1
  /\ \E i, j \in 1..Len(fetched) :
       /\ i < j
       /\ fetched[i].depth = 1
       /\ ResponseIsFailure(fetched[i].env)
       /\ fetched[j].depth = 1

\* C9: all-error run: a finished run has a result, and when the fetch of the
\* seed failed that result has no link and at least one error.
C9_AllErrorRun ==
  mainpc \in {"saved", "done"} =>
    /\ results # NoResults
    /\ (Len(fetched) >= 1 /\ ResponseIsFailure(fetched[1].env)) =>
         /\ results.TotalLinks = 0
         /\ results.AllLinks = <<>>
         /\ results.InternalLinks = <<>>
         /\ results.ExternalLinks = <<>>
         /\ results.ErrorsCount > 0
         /\ Len(results.Errors) = results.ErrorsCount

\* a finished run whose only fetch, of the seed, failed
C9_Witness ==
  /\ mainpc = "done"
  /\ Len(fetched) = 1
  /\ ResponseIsFailure(fetched[1].env)

\* the classifier of the specification, on the paths of the modelled site
CategoryOf(url) ==
  CASE url.path \in {"/img.png", "/logo.png"} -> "Image"
    [] url.path = "/style.css" -> "Stylesheet"
    [] OTHER -> "Page"

\* c is the canonical form of the href of an anchor, or of a link element
\* with rel canonical or alternate, of the page of fetch f
FromPrimaryNavigation(c, f) ==
  \E k \in 1..Len(f.body) :
    /\ \/ f.body[k].tag = "a"
       \/ /\ f.body[k].tag = "link"
          /\ \E r \in 1..Len(f.body[k].rel) : f.body[k].rel[r] \in {"canonical", "alternate"}
    /\ normalizeURL(f.body[k].href, f.url) = c

Normalized == { t \in Threads : tpc[t] \in {"n_returned", "n_again", "n_registered"} }

\* a reference the specification discards: empty after trimming, a bare
\* fragment, or one of the six non-navigable schemes
NonNavigable(h) ==
  \/ /\ h.scheme = "" /\ h.host = <<>> /\ h.path = "" /\ h.query = <<>>
  \/ h.scheme \in {"javascript", "mailto", "tel", "ftp", "file", "data"}

\* C11: rejected references: normalizeURL returns "" for every href that is
\* empty after trimming, a bare fragment, or uses one of the schemes
\* javascript:, mailto:, tel:, ftp:, file:, data:, and such a reference is
\* never registered.
C11_RejectedReferences ==
  \A t \in Normalized :
    NonNavigable(targ[t].href) =>
      /\ tlocal[t].cleanURL = EmptyString
      /\ links = <<>>

\* C12: idempotent canonicalization: when normalizeURL(h, b) yields a URL c,
\* normalizeURL(c, c) yields c.
C12_Idempotent ==
  \A t \in Threads : tpc[t] = "n_again" => tlocal[t].again = tlocal[t].cleanURL

\* the query parameters of reference h that are not tracking parameters
NonTracking(h) ==
  { h.query[i] : i \in { n \in 1..Len(h.query) :
      h.query[n].k \notin {"utm_source", "utm_medium", "utm_campaign", "utm_term",
                           "utm_content", "fbclid", "gclid"} } }

\* C13: canonical form of everything registered: a registered URL has no
\* fragment and none of the tracking parameters, and it keeps every
\* non-tracking query parameter of the reference it was registered for.
C13_CanonicalRegistered ==
  /\ \A i \in 1..Len(links) :
       /\ links[i].frag = ""
       /\ \A n \in 1..Len(links[i].query) :
            links[i].query[n].k \notin {"utm_source", "utm_medium", "utm_campaign",
                                        "utm_term", "utm_content", "fbclid", "gclid"}
  /\ \A t \in Threads :
       tpc[t] = "n_registered" =>
         \E i \in 1..Len(links) : NonTracking(targ[t].href) \subseteq Range(links[i].query)

\* a host with one leading "www." removed, whatever its case
StripWww(host) ==
  IF Len(host) > 1 /\ host[1] \in {"www", "WWW"} THEN Tail(host) ELSE host

\* two hosts equal but for the case of their letters
EqualFold(h1, h2) ==
  /\ Len(h1) = Len(h2)
  /\ \A i \in 1..Len(h1) : ToLowerLabel(h1[i]) = ToLowerLabel(h2[i])

\* C14: site membership: for a link that parses, isInternalLink is true when
\* the link has no host, and otherwise exactly when the hosts of link and seed
\* are equal, case-insensitively, after one leading "www." is removed from
\* both; so www.ex.com and ex.com are the same site either way round, and
\* another subdomain or host is external.
C14_SiteMembership ==
  \A t \in Threads :
    (tpc[t] = "i_returned" /\ targ[t].scheme # "%invalid") =>
      /\ targ[t].host = <<>> => tlocal[t] = TRUE
      /\ targ[t].host # <<>> =>
           (tlocal[t] = EqualFold(StripWww(targ[t].host), StripWww(baseURL.host)))
      /\ (baseURL = SeedWww /\ targ[t] = LinkBare) => tlocal[t] = TRUE
      /\ (baseURL = SeedURL /\ targ[t] = LinkWww) => tlocal[t] = TRUE
      /\ targ[t] \in {LinkBlog, HrefExt, LinkWwwOther} => tlocal[t] = FALSE

\* isInternalLink has answered true for the link ex.com/b of a scraper whose
\* seed is www.ex.com
C14_Witness ==
  \E t \in Threads :
    /\ tpc[t] = "i_returned"
    /\ baseURL = SeedWww
    /\ targ[t] = LinkBare
    /\ tlocal[t] = TRUE

\* C15: consistent snapshot: every result GetResults returns while other
\* goroutines call addLink and addError has TotalLinks = InternalCount +
\* ExternalCount = len(AllLinks), holds every internal and external link in
\* AllLinks, and counts the errors it lists: no registration is seen half
\* applied.
C15_ConsistentSnapshot ==
  \A t \in Threads :
    tpc[t] = "returned" =>
      /\ tlocal[t].TotalLinks = tlocal[t].InternalCount + tlocal[t].ExternalCount
      /\ tlocal[t].TotalLinks = Len(tlocal[t].AllLinks)
      /\ tlocal[t].InternalCount = Len(tlocal[t].InternalLinks)
      /\ tlocal[t].ExternalCount = Len(tlocal[t].ExternalLinks)
      /\ Range(tlocal[t].InternalLinks) \subseteq Range(tlocal[t].AllLinks)
      /\ Range(tlocal[t].ExternalLinks) \subseteq Range(tlocal[t].AllLinks)
      /\ tlocal[t].ErrorsCount = Len(tlocal[t].Errors)

\* GetResults returned the link a first goroutine had registered and no
\* error, and a third goroutine has added an error since
C15_Witness ==
  \E t \in Threads :
    /\ tpc[t] = "returned"
    /\ tlocal[t].TotalLinks = 1
    /\ tlocal[t].ErrorsCount = 0
    /\ Len(errors) = 1

\* the goroutines whose call of addError has returned
Reported == { t \in Threads : tpc[t] = "e_done" }

\* C16: no lost error record: whenever no goroutine is inside addError's
\* critical section, errors holds one entry for each call of addError that
\* has returned, whatever calls of addLink and GetResults ran meanwhile.
C16_NoLostError ==
  (\A t \in Threads : tpc[t] \notin {"e_read", "e_write"}) =>
    /\ Len(errors) = Cardinality(Reported)
    /\ \A u \in ConcErrorURLs :
         Cardinality({ i \in 1..Len(errors) : errors[i].url = u })
           = Cardinality({ t \in Reported : targ[t].url = u })

\* two goroutines have reported an error while a third registered a link
C16_Witness ==
  \E t1, t2, t3 \in Threads :
    /\ t1 # t2
    /\ tpc[t1] = "e_done"
    /\ tpc[t2] = "e_done"
    /\ tpc[t3] = "a_done"
    /\ Len(errors) = 2

\* the seed does not parse or the output directory cannot be created
SetupFails == baseURL.scheme = "%invalid" \/ outputDir = "/proc/results"

\* C17: setup errors are fatal and come before the traversal: when the seed
\* does not parse or the output directory cannot be created, main never gets
\* past NewLinkScraper: no call of ScrapeLinksRecursive, no URL in the visited
\* set, no fetch, no report; and it does not stay in NewLinkScraper but exits.
C17_SetupErrorsFatal ==
  [][ SetupFails =>
        /\ mainpc' = "fatal"
        /\ stack' = <<>>
        /\ visitedURL' = {}
        /\ fetched' = <<>>
        /\ results' = NoResults
    ]_vars

\* main has exited in NewLinkScraper: the seed parses, the directory cannot
\* be created
C17_Witness ==
  /\ mainpc = "fatal"
  /\ baseURL = SeedURL
  /\ outputDir = "/proc/results"

\* a step in which main calls GetResults
CallsGetResults == mainpc' # mainpc /\ mainpc' \in {"saved", "done"}

\* C18: report building is a pure aggregation: a call of GetResults changes
\* none of visitedURL, links, internalLinks, externalLinks, errors,
\* currentDepth, its statistics are the sizes of that state, and the second of
\* two calls with nothing in between returns the same lists and counts.
C18_PureAggregation ==
  [][ CallsGetResults =>
        /\ UNCHANGED << visitedURL, links, internalLinks, externalLinks, errors,
                        currentDepth >>
        /\ results'.PagesVisited = Cardinality(visitedURL)
        /\ results'.TotalLinks = Len(links)
        /\ results'.InternalCount = Len(internalLinks)
        /\ results'.ExternalCount = Len(externalLinks)
        /\ results'.ErrorsCount = Len(errors)
        /\ mainpc = "saved" =>
             /\ results'.AllLinks = results.AllLinks
             /\ results'.InternalLinks = results.InternalLinks
             /\ results'.ExternalLinks = results.ExternalLinks
             /\ results'.Errors = results.Errors
             /\ results'.PagesVisited = results.PagesVisited
             /\ results'.TotalLinks = results.TotalLinks
             /\ results'.InternalCount = results.InternalCount
             /\ results'.ExternalCount = results.ExternalCount
             /\ results'.ErrorsCount = results.ErrorsCount
    ]_vars

\* GetResults has been called twice on a state with several visited pages,
\* another number of links, an external link and an error
C18_Witness ==
  /\ mainpc = "done"
  /\ results.PagesVisited >= 2
  /\ results.PagesVisited # results.TotalLinks
  /\ results.ExternalCount >= 1
  /\ results.ErrorsCount >= 1

\* the categories of the specification
Categories ==
  {"Page", "Document", "Image", "Script", "Stylesheet", "Media", "Archive", "Other"}

\* C19: category view consistency: in every result each registered link is
\* in the bucket of exactly one category, and the per-category counts sum to
\* the total link count.
C19_CategoryView ==
  mainpc \in {"saved", "done"} =>
    /\ \A i \in 1..Len(results.AllLinks) :
         Cardinality({ c \in Categories :
                         results.AllLinks[i] \in Range(ByCategory(results, c)) }) = 1
    /\ Cardinality({ p \in Categories \X (1..results.TotalLinks) :
                       p[2] <= Len(ByCategory(results, p[1])) }) = results.TotalLinks

\* C20: causal ordering of a visit: a URL is in the visited set before the
\* step that fetches it, the step that admits it fetches nothing, and links
\* are registered only in the step of a fetch of a visited page whose
\* response is a success (2xx, HTML, parsed), each of them a reference of
\* that page.
C20_CausalOrdering ==
  [][ /\ Len(fetched') > Len(fetched) =>
           /\ Len(fetched') = Len(fetched) + 1
           /\ LastFetch(fetched').url \in visitedURL
      /\ visitedURL' # visitedURL =>
           /\ fetched' = fetched
           /\ links' = links
           /\ \A u \in visitedURL' \ visitedURL :
                \A i \in 1..Len(fetched) : fetched[i].url # u
      /\ links' # links =>
           /\ Len(fetched') = Len(fetched) + 1
           /\ ~ResponseIsFailure(LastFetch(fetched').env)
           /\ LastFetch(fetched').url \in visitedURL
           /\ SubSeq(links', 1, Len(links)) = links
           /\ \A l \in Range(links') \ Range(links) :
                FromPrimaryNavigation(l, LastFetch(fetched'))
    ]_vars

\* after the seed, a page whose fetch failed and a page that added links
\* have been fetched
C20_Witness ==
  /\ Len(fetched) >= 3
  /\ \E i \in 2..Len(fetched) : ResponseIsFailure(fetched[i].env)
  /\ \E j \in 2..Len(fetched) :
       \E l \in Range(links) :
         /\ FromPrimaryNavigation(l, fetched[j])
         /\ \A k \in 1..(j - 1) : ~FromPrimaryNavigation(l, fetched[k])

\* C21: the depth check precedes the visited check: the step a call of
\* ScrapeLinksRecursive(url, depth) with depth > maxDepth takes is its return,
\* and it leaves visitedURL, currentDepth, links, internalLinks, externalLinks
\* and errors unchanged and fetches nothing.
C21_DepthCheckFirst ==
  [][ \A t \in Threads :
        (tpc[t] = "s_entry" /\ targ[t].depth > maxDepth /\ tpc'[t] # tpc[t]) =>
          /\ tpc'[t] = "s_done"
          /\ UNCHANGED << visitedURL, currentDepth, links, internalLinks,
                          externalLinks, errors, fetched >>
    ]_vars

\* a call on a URL has returned for its depth, and another goroutine's call
\* on the same URL, at a depth within the budget, has fetched it
C21_Witness ==
  \E t \in Threads :
    /\ tpc[t] = "s_done"
    /\ targ[t].depth > maxDepth
    /\ \E i \in 1..Len(fetched) :
         /\ fetched[i].url = targ[t].url
         /\ fetched[i].by # t
         /\ fetched[i].depth <= maxDepth

\* the response is a page: the request went through, the body decodes, the
\* status is 2xx, the content is HTML and parses
ResponseIsPage(env) ==
  /\ ~env.reqErr
  /\ env.gzipOK
  /\ env.status >= 200
  /\ env.status < 300
  /\ env.ctype \in {"text/html", "Text/HTML; charset=utf-8"}
  /\ env.parseOK

\* the anchors of a document whose href parses and is navigable
GoodAnchors(body) ==
  { k \in 1..Len(body) :
      /\ body[k].tag = "a"
      /\ body[k].href.scheme # "%invalid"
      /\ ~NonNavigable(body[k].href) }

\* C25: per-link failures are silent: when a fetched page holds a reference
\* that does not parse, the call adds no entry to errors, registers no link
\* for that reference, and still registers every other anchor of the page.
C25_SilentLinkFailure ==
  \A t \in Threads :
    ( /\ tpc[t] = "f_returned"
      /\ targ[t].url # Unparsable
      /\ ResponseIsPage(targ[t].resp.env)
      /\ targ[t].resp.env.encoding # "br"
      /\ \E k \in 1..Len(targ[t].resp.body) : targ[t].resp.body[k].href = Unparsable ) =>
        /\ errors = <<>>
        /\ \A i \in 1..Len(links) :
             links[i].scheme # "%invalid" /\ links[i] # EmptyString
        /\ \A k \in GoodAnchors(targ[t].resp.body) :
             \E i \in 1..Len(links) :
               /\ links[i].path = targ[t].resp.body[k].href.path
               /\ targ[t].resp.body[k].href.host # <<>> =>
                    links[i].host = targ[t].resp.body[k].href.host
        /\ Len(links) = Cardinality({ targ[t].resp.body[k].href.path :
                                        k \in GoodAnchors(targ[t].resp.body) })

\* a page whose second of three anchors does not parse has been scraped, and
\* the two others are registered
C25_Witness ==
  \E t \in Threads :
    /\ tpc[t] = "f_returned"
    /\ targ[t].url = SeedURL
    /\ targ[t].resp.body = BodyUnparsableMiddle
    /\ Len(links) = 2
    /\ errors = <<>>

\* C27: unsupported transfer encodings are a fetch error: a response whose
\* Content-Encoding is not absent, gzip or deflate makes scrapePage return an
\* error, which is recorded in errors, and registers no link.
C27_UnsupportedEncoding ==
  \A t \in Threads :
    ( /\ tpc[t] = "f_returned"
      /\ targ[t].url # Unparsable
      /\ targ[t].resp.env.encoding \notin {"", "gzip", "deflate"} ) =>
        /\ tlocal[t].err # ""
        /\ Len(errors) = 1
        /\ links = <<>>

\* the canonical spelling of a URL: no fragment, no tracking parameter
Canonical(u) ==
  [u EXCEPT !.frag = "",
            !.query = SelectSeq(@, LAMBDA p :
                        p.k \notin {"utm_source", "utm_medium", "utm_campaign",
                                    "utm_term", "utm_content", "fbclid", "gclid"})]

\* C26: the visited set holds canonical URLs only: every URL of visitedURL, the
\* seed included, is its own canonical spelling, and no two fetches are of
\* URLs with the same canonical spelling.
C26_CanonicalVisited ==
  /\ \A u \in visitedURL : Canonical(u) = u
  /\ \A i, j \in 1..Len(fetched) :
       Canonical(fetched[i].url) = Canonical(fetched[j].url) => i = j

\* the depths of the admissions so far: of the calls between their mark and
\* their fetch, and of the fetches
AdmissionDepths ==
  { targ[t].depth : t \in { u \in Threads : tpc[u] = "s_fetch" } }
    \cup { fetched[i].depth : i \in 1..Len(fetched) }

\* the largest depth of an admission so far, 0 when there is none
MaxAdmissionDepth ==
  IF AdmissionDepths = {} THEN 0
  ELSE CHOOSE d \in AdmissionDepths : \A e \in AdmissionDepths : e <= d

DepthRecordExact ==
  /\ currentDepth = MaxAdmissionDepth
  /\ maxDepth >= 0 => (0 <= currentDepth /\ currentDepth <= maxDepth)

\* C30: MaxDepthReached is the largest depth at which a URL was admitted:
\* currentDepth is 0 before any admission, never decreases, equals the
\* largest admission depth so far after every step, and for maxDepth >= 0
\* lies in 0..maxDepth.
C30_MaxDepthReached ==
  /\ DepthRecordExact
  /\ [][ currentDepth' >= currentDepth /\ DepthRecordExact' ]_vars

\* a URL was admitted at depth 1 and then another one at depth 0; the record
\* is still 1
C30_Witness ==
  /\ Len(fetched) >= 2
  /\ fetched[1].depth = 1
  /\ fetched[2].depth = 0
  /\ currentDepth = 1

\* sequence a is the beginning of sequence b
IsPrefix(a, b) == Len(a) <= Len(b) /\ \A i \in 1..Len(a) : a[i] = b[i]

\* C24: grow-only state: every step leaves the contents of links,
\* internalLinks, externalLinks and errors as a prefix of their new contents
\* and removes no URL from visitedURL.
C24_GrowOnly ==
  [][ /\ IsPrefix(links, links')
      /\ IsPrefix(internalLinks, internalLinks')
      /\ IsPrefix(externalLinks, externalLinks')
      /\ IsPrefix(errors, errors')
      /\ visitedURL \subseteq visitedURL' ]_vars

\* a run that has appended to every list more than once: two errors, two
\* internal links, an external link, three visited URLs
C24_Witness ==
  /\ Len(errors) >= 2
  /\ Len(internalLinks) >= 2
  /\ Len(externalLinks) >= 1
  /\ Cardinality(visitedURL) >= 3

\* the fetches that returned a page, and the entries of errors for a URL
PageFetches == { i \in 1..Len(fetched) : ResponseIsPage(fetched[i].env) }
ErrorsFor(u) == { k \in 1..Len(errors) : errors[k].url = u }

\* C29: visit accounting: every fetch is of an admitted URL, no URL is fetched
\* twice, a fetch that returned a page leaves no error entry and any other
\* fetch exactly one, so len(errors) <= |visitedURL|; when the run has ended
\* every admitted URL has been fetched and PagesVisited is the number of pages
\* fetched successfully plus ErrorsCount.
C29_VisitAccounting ==
  /\ Len(errors) <= Cardinality(visitedURL)
  /\ \A i \in 1..Len(fetched) :
       /\ fetched[i].url \in visitedURL
       /\ \A j \in 1..Len(fetched) : fetched[i].url = fetched[j].url => i = j
       /\ Cardinality(ErrorsFor(fetched[i].url)) = IF i \in PageFetches THEN 0 ELSE 1
  /\ Len(errors) = Len(fetched) - Cardinality(PageFetches)
  /\ mainpc = "done" =>
       /\ visitedURL = { fetched[i].url : i \in 1..Len(fetched) }
       /\ results.PagesVisited = Cardinality(PageFetches) + results.ErrorsCount

\* a finished run in which two pages were fetched successfully and one fetch
\* failed: PagesVisited is 3
C29_Witness ==
  /\ mainpc = "done"
  /\ Cardinality(PageFetches) = 2
  /\ results.ErrorsCount = 1
  /\ results.PagesVisited = 3

\* URL u is on the site of the seed
SameSite(u) == EqualFold(StripWww(u.host), StripWww(baseURL.host))

\* C28: every visited URL other than the seed was registered as an internal
\* link before it was admitted: visitedURL minus the seed is a subset of
\* internalLinks, every call of ScrapeLinksRecursive below the first is on a
\* URL of internalLinks, and no URL of another site is fetched.
C28_VisitedWereInternal ==
  /\ \A u \in visitedURL : u = baseURL \/ u \in Range(internalLinks)
  /\ \A k \in 2..Len(stack) : stack[k].url \in Range(internalLinks)
  /\ \A i \in 1..Len(fetched) : SameSite(fetched[i].url)

\* a finished run that visited a page below the seed and found an external
\* link, which it did not visit
C28_Witness ==
  /\ mainpc = "done"
  /\ Cardinality(visitedURL) >= 2
  /\ Len(externalLinks) >= 1
  /\ \A i \in 1..Len(externalLinks) : externalLinks[i] \notin visitedURL

\* the anchors and rel=canonical/alternate link elements of a document
PrimaryElements(body) ==
  { k \in 1..Len(body) :
      \/ body[k].tag = "a"
      \/ /\ body[k].tag = "link"
         /\ \E r \in 1..Len(body[k].rel) : body[k].rel[r] \in {"canonical", "alternate"} }

\* the canonical references of the anchors and rel=canonical/alternate link
\* elements of the pages fetched successfully so far
FoundOnPages ==
  UNION { { normalizeURL(fetched[i].body[k].href, fetched[i].url) :
              k \in PrimaryElements(fetched[i].body) } : i \in PageFetches }
    \ { EmptyString }

\* C22: registration does not depend on the depth budget: the URLs of links
\* are exactly the canonical references found on the pages fetched
\* successfully, the pages fetched at depth maxDepth included, in every state
\* and so when the run ends.
C22_RegistrationExact == Range(links) = FoundOnPages

\* a finished run with a page fetched at depth maxDepth, one of whose internal
\* links is registered and was not visited
C22_Witness ==
  /\ mainpc = "done"
  /\ \E i \in PageFetches :
       /\ fetched[i].depth = maxDepth
       /\ \E c \in Range(fetched[i].cands) : c \notin visitedURL /\ c \in Range(links)

\* link l is internal: it has no host, or the host of the seed's site
OnSite(l) == l.host = <<>> \/ SameSite(l)

\* links is duplicate-free, internalLinks is links filtered by site
\* membership and externalLinks is the rest
ViewsOfLinks ==
  /\ \A i, j \in 1..Len(links) : links[i] = links[j] => i = j
  /\ internalLinks = SelectSeq(links, OnSite)
  /\ externalLinks = SelectSeq(links, LAMBDA l : ~OnSite(l))

\* C23: order-preserving views: links holds distinct URLs in order of first
\* discovery (a step that changes the lists appends to links, and only URLs
\* found on the page it fetches, which were not in links before),
\* internalLinks is links filtered by site membership and externalLinks is
\* the rest, both in the order of links.
C23_OrderedViews ==
  /\ ViewsOfLinks
  /\ [][ \/ UNCHANGED << links, internalLinks, externalLinks >>
         \/ /\ ViewsOfLinks'
            /\ IsPrefix(links, links')
            /\ \A i \in (Len(links) + 1)..Len(links') :
                 /\ Len(fetched') = Len(fetched) + 1
                 /\ FromPrimaryNavigation(links'[i], LastFetch(fetched')) ]_vars

\* links of two pages are registered, internal and external ones interleaved:
\* an internal link, then an external one, then an internal one
C23_Witness ==
  /\ Len(fetched) >= 2
  /\ Len(links) >= 3
  /\ \E i, j, k \in 1..Len(links) :
       /\ i < j
       /\ j < k
       /\ OnSite(links[i])
       /\ ~OnSite(links[j])
       /\ OnSite(links[k])

\* goroutine t holds ls.mutex, for writing or for reading
Holds(t) == t \in mutex.writers \cup mutex.readers

\* the positions from which the next step of a goroutine is a Lock() or an
\* RLock(), and those between a Lock()/RLock() and its Unlock()/RUnlock()
BeforeAcquire == {"s_entry", "s_check", "l_loop", "a_entry", "e_entry", "g_entry"}
InsideSection ==
  {"s_read", "s_mark", "l_read", "a_scan", "a_found", "a_classify", "e_read",
   "e_write", "g_read"}

\* goroutine t is inside a call of a method
InCall(t) == tpc[t] \in BeforeAcquire \cup InsideSection \cup {"s_fetch", "l_check"}

====
